---- MODULE Spec2Model ----
(***************************************************************************)
(* Model of the game progression engine of src/src/App.tsx: the round      *)
(* generator (generateColor, nextLevel) and the session controller         *)
(* (startGame, handleBlockClick, the countdown interval and the two        *)
(* effects).                                                               *)
(*                                                                         *)
(* One action is one event processed to completion: the handler, the       *)
(* render it causes and the effects of that render.  React runs the        *)
(* effects of a committed render before it renders any later update, so a  *)
(* later event never observes a commit whose effects are still pending.    *)
(***************************************************************************)
EXTENDS Integers, Naturals, Sequences, FiniteSets, TLC

\* ------------------------------------------------------------------------
\* Program constants
\* ------------------------------------------------------------------------
INITIAL_TIME == 15
TIME_BONUS == 2
MIN_GRID_SIZE == 2
MAX_GRID_SIZE == 8
\* Math.min(prev + TIME_BONUS, 30)
TimeCap == 30
\* Math.max(0, prev - 3)
Penalty == 3

\* ------------------------------------------------------------------------
\* Bounds of the model
\* ------------------------------------------------------------------------
\* session specification: correct guesses are accepted while score < MaxScore
\* (8 correct guesses are needed to run timeLeft into its cap)
MaxScore == 8
\* session specification: resolution of Math.random()
GameLevels == 2
\* round generator specification: correct guesses are accepted while
\* score < MaxGenScore (the last grid threshold is 45)
MaxGenScore == 46
\* round generator specification: resolution of Math.random()
GenLevels == 3

\* ------------------------------------------------------------------------
\* State
\* ------------------------------------------------------------------------
VARIABLES
    gameState,    \* 'START' | 'PLAYING' | 'GAMEOVER'
    score,
    timeLeft,
    gridSize,
    colors,       \* sequence of colour strings, row-major, 1-based here
    targetIndex,  \* 0-based as in the source; -1 before the first round
    bestScore,
    timerRef,     \* timerRef.current: 0 is null, otherwise an interval id
    intervals,    \* ids of the intervals that are registered and not cleared
    ev,           \* history: the last event and the state it was applied in
    maxEnded,     \* history: highest score a session has ended with
    carried       \* history: live intervals registered before the last start

vars == <<gameState, score, timeLeft, gridSize, colors, targetIndex,
          bestScore, timerRef, intervals, ev, maxEnded, carried>>

round == <<gridSize, colors, targetIndex>>

Max(a, b) == IF a >= b THEN a ELSE b
Min(a, b) == IF a <= b THEN a ELSE b

\* ------------------------------------------------------------------------
\* Math.random(): [0, 1) is cut into L equal cells and the draw k of L stands
\* for the midpoint (2k + 1) / 2L of cell k
\* ------------------------------------------------------------------------
Draws(L) == 0 .. (L - 1)

\* Math.floor(Math.random() * n)
RandomFloor(k, L, n) == ((2 * k + 1) * n) \div (2 * L)

\* Math.random() > 0.5
RandomAboveHalf(k, L) == 2 * k + 1 > L

\* the template string `hsl(${h}, ${s}%, ${l}%)`: distinct integer triples
\* give distinct strings, so the string is kept as the tagged triple
Hsl(h, s, l) == <<"hsl", h, s, l>>

\* ------------------------------------------------------------------------
\* Round generator
\* ------------------------------------------------------------------------
\* variant: the gap is floored at 0
DeltaFlooredAtZero(currentScore) == Max(0, 15 - (currentScore \div 3))

\* variant: the remainder of score / 3 is taken, not the quotient
DeltaOfRemainder(currentScore) == Max(1, 15 - (currentScore % 3))

Delta(currentScore) == Max(1, 15 - (currentScore \div 3))

\* variant: a channel at exactly 50 is lowered, not raised
generateColorLowersFifty(currentScore, kh, ks, kl, kc, L) ==
    LET h == RandomFloor(kh, L, 360)
        s == RandomFloor(ks, L, 40) + 40
        l == RandomFloor(kl, L, 40) + 30
        delta == Delta(currentScore)
        component == IF RandomAboveHalf(kc, L) THEN "l" ELSE "s"
        diffL == IF component = "l" THEN (IF l >= 50 THEN -delta ELSE delta) ELSE 0
        diffS == IF component = "s" THEN (IF s >= 50 THEN -delta ELSE delta) ELSE 0
    IN  [baseColor |-> Hsl(h, s, l),
         targetColor |-> Hsl(h, s + diffS, l + diffL)]

generateColor(currentScore, kh, ks, kl, kc, L) ==
    LET h == RandomFloor(kh, L, 360)
        s == RandomFloor(ks, L, 40) + 40
        l == RandomFloor(kl, L, 40) + 30
        delta == Delta(currentScore)
        component == IF RandomAboveHalf(kc, L) THEN "l" ELSE "s"
        diffL == IF component = "l" THEN (IF l > 50 THEN -delta ELSE delta) ELSE 0
        diffS == IF component = "s" THEN (IF s > 50 THEN -delta ELSE delta) ELSE 0
    IN  [baseColor |-> Hsl(h, s, l),
         targetColor |-> Hsl(h, s + diffS, l + diffL)]

\* variant: the thresholds are exclusive lower bounds
NewGridSizeExclusive(currentScore) ==
    IF currentScore > 45 THEN 8
    ELSE IF currentScore > 30 THEN 7
    ELSE IF currentScore > 20 THEN 6
    ELSE IF currentScore > 12 THEN 5
    ELSE IF currentScore > 6 THEN 4
    ELSE IF currentScore > 2 THEN 3
    ELSE MIN_GRID_SIZE

NewGridSize(currentScore) ==
    IF currentScore >= 45 THEN 8
    ELSE IF currentScore >= 30 THEN 7
    ELSE IF currentScore >= 20 THEN 6
    ELSE IF currentScore >= 12 THEN 5
    ELSE IF currentScore >= 6 THEN 4
    ELSE IF currentScore >= 2 THEN 3
    ELSE MIN_GRID_SIZE

\* the three state updates of nextLevel, as the round they install
nextLevel(currentScore, kh, ks, kl, kc, ki, L) ==
    LET newGridSize == NewGridSize(currentScore)
        c == generateColor(currentScore, kh, ks, kl, kc, L)
        totalBlocks == newGridSize * newGridSize
        newTargetIndex == RandomFloor(ki, L, totalBlocks)
        newColors == [p \in 1 .. totalBlocks |->
                        IF p = newTargetIndex + 1 THEN c.targetColor
                                                  ELSE c.baseColor]
    IN  [gridSize |-> newGridSize,
         colors |-> newColors,
         targetIndex |-> newTargetIndex]

\* ------------------------------------------------------------------------
\* Effects
\* ------------------------------------------------------------------------
\* clearInterval(id)
ClearInterval(live, id) == live \ {id}

\* an interval id that is neither live nor held by timerRef
FreshId(live, ref) == CHOOSE id \in 1 .. 3 : id \notin live /\ id # ref

\* variant: the interval is never cleared when the game stops
TimerEffectLeaks(old, new, ref, live) ==
    IF old = new
    THEN [timerRef |-> ref, intervals |-> live]
    ELSE IF new = "PLAYING"
         THEN LET cleaned == IF ref # 0 THEN ClearInterval(live, ref) ELSE live
                  id == CHOOSE id \in 1 .. 3 : id \notin cleaned /\ id # ref
              IN  [timerRef |-> id, intervals |-> cleaned \cup {id}]
         ELSE [timerRef |-> ref, intervals |-> live]

\* useEffect(..., [gameState]): runs when gameState changed; the cleanup of
\* the previous run comes first
TimerEffect(old, new, ref, live) ==
    IF old = new
    THEN [timerRef |-> ref, intervals |-> live]
    ELSE LET cleaned == IF ref # 0 THEN ClearInterval(live, ref) ELSE live
         IN  IF new = "PLAYING"
             THEN LET id == FreshId(cleaned, ref)
                  IN  [timerRef |-> id, intervals |-> cleaned \cup {id}]
             ELSE [timerRef |-> ref,
                   intervals |-> IF ref # 0 THEN ClearInterval(cleaned, ref)
                                            ELSE cleaned]

\* variant: the effect does not look at gameState
BestScoreEffectAnyState(state, sc, best) == IF sc > best THEN sc ELSE best

\* variant: the effect records the last final score, not the highest
BestScoreEffectLast(state, sc, best) == IF state = "GAMEOVER" THEN sc ELSE best

\* useEffect(..., [gameState, score, bestScore])
BestScoreEffect(state, sc, best) ==
    IF state = "GAMEOVER" /\ sc > best THEN sc ELSE best

Event(op, index) ==
    [op |-> op, index |-> index, state |-> gameState, score |-> score,
     time |-> timeLeft, best |-> bestScore]

\* ------------------------------------------------------------------------
\* Initial state: after the first render and its effects
\* ------------------------------------------------------------------------
Init ==
    /\ gameState = "START"
    /\ score = 0
    /\ timeLeft = INITIAL_TIME
    /\ gridSize = MIN_GRID_SIZE
    /\ colors = <<>>
    /\ targetIndex = -1
    /\ bestScore = 0
    /\ timerRef = 0
    /\ intervals = {}
    /\ ev = [op |-> "none", index |-> -1, state |-> "START", score |-> 0,
             time |-> INITIAL_TIME, best |-> 0]
    /\ maxEnded = 0
    /\ carried = {}

\* ------------------------------------------------------------------------
\* Events
\* ------------------------------------------------------------------------
\* variant: a start while PLAYING keeps the running score and clock
startGameKeepsSession(kh, ks, kl, kc, ki, L) ==
    LET r == nextLevel(0, kh, ks, kl, kc, ki, L)
        t == TimerEffect(gameState, "PLAYING", timerRef, intervals)
    IN  /\ score' = IF gameState = "PLAYING" THEN score ELSE 0
        /\ timeLeft' = IF gameState = "PLAYING" THEN timeLeft ELSE INITIAL_TIME
        /\ gameState' = "PLAYING"
        /\ gridSize' = r.gridSize
        /\ colors' = r.colors
        /\ targetIndex' = r.targetIndex
        /\ bestScore' = bestScore
        /\ timerRef' = t.timerRef
        /\ intervals' = t.intervals
        /\ ev' = Event("start", -1)
        /\ carried' = t.intervals \cap intervals
        /\ UNCHANGED maxEnded

startGame(kh, ks, kl, kc, ki, L) ==
    LET r == nextLevel(0, kh, ks, kl, kc, ki, L)
        t == TimerEffect(gameState, "PLAYING", timerRef, intervals)
    IN  /\ score' = 0
        /\ timeLeft' = INITIAL_TIME
        /\ gameState' = "PLAYING"
        /\ gridSize' = r.gridSize
        /\ colors' = r.colors
        /\ targetIndex' = r.targetIndex
        /\ bestScore' = BestScoreEffect("PLAYING", 0, bestScore)
        /\ timerRef' = t.timerRef
        /\ intervals' = t.intervals
        /\ ev' = Event("start", -1)
        /\ carried' = t.intervals \cap intervals
        /\ UNCHANGED maxEnded

\* variant: the bonus is not capped
BonusUncapped(prev) == prev + TIME_BONUS

\* setTimeLeft(prev => Math.min(prev + TIME_BONUS, 30))
Bonus(prev) == Min(prev + TIME_BONUS, TimeCap)

\* variant: the penalty is not floored
PenaliseUnfloored(prev) == prev - Penalty

\* variant: the penalty is one second
PenaliseByOne(prev) == Max(0, prev - 1)

\* setTimeLeft(prev => Math.max(0, prev - 3))
Penalise(prev) == Max(0, prev - Penalty)

\* variant: only the not-started game rejects a guess
IsStarted(state) == state # "START"

\* variant: only the finished game rejects a guess
IsNotOver(state) == state # "GAMEOVER"

\* if (gameState !== 'PLAYING') return;
IsPlaying(state) == state = "PLAYING"

\* variant: every index from the target on counts as the target
IsTargetOrLater(index, target) == index >= target

\* index === targetIndex
IsTarget(index, target) == index = target

\* variant: the round is built for the score before the guess
handleBlockClickStaleScore(index, kh, ks, kl, kc, ki, L) ==
    /\ ev' = Event("guess", index)
    /\ IF ~IsPlaying(gameState)
       THEN UNCHANGED <<gameState, score, timeLeft, gridSize, colors,
                        targetIndex, bestScore, timerRef, intervals, maxEnded,
                        carried>>
       ELSE IF IsTarget(index, targetIndex)
       THEN LET newScore == score + 1
                r == nextLevel(score, kh, ks, kl, kc, ki, L)
            IN  /\ score' = newScore
                /\ timeLeft' = Min(timeLeft + TIME_BONUS, TimeCap)
                /\ gridSize' = r.gridSize
                /\ colors' = r.colors
                /\ targetIndex' = r.targetIndex
                /\ bestScore' = BestScoreEffect(gameState, newScore, bestScore)
                /\ UNCHANGED <<gameState, timerRef, intervals, maxEnded,
                               carried>>
       ELSE /\ timeLeft' = Max(0, timeLeft - Penalty)
            /\ bestScore' = BestScoreEffect(gameState, score, bestScore)
            /\ UNCHANGED <<gameState, score, gridSize, colors, targetIndex,
                           timerRef, intervals, maxEnded, carried>>

handleBlockClick(index, kh, ks, kl, kc, ki, L) ==
    /\ ev' = Event("guess", index)
    /\ IF ~IsPlaying(gameState)
       THEN UNCHANGED <<gameState, score, timeLeft, gridSize, colors,
                        targetIndex, bestScore, timerRef, intervals, maxEnded,
                        carried>>
       ELSE IF IsTarget(index, targetIndex)
       THEN LET newScore == score + 1
                r == nextLevel(newScore, kh, ks, kl, kc, ki, L)
            IN  /\ score' = newScore
                /\ timeLeft' = Bonus(timeLeft)
                /\ gridSize' = r.gridSize
                /\ colors' = r.colors
                /\ targetIndex' = r.targetIndex
                /\ bestScore' = BestScoreEffect(gameState, newScore, bestScore)
                /\ UNCHANGED <<gameState, timerRef, intervals, maxEnded,
                               carried>>
       ELSE /\ timeLeft' = Penalise(timeLeft)
            /\ bestScore' = BestScoreEffect(gameState, score, bestScore)
            /\ UNCHANGED <<gameState, score, gridSize, colors, targetIndex,
                           timerRef, intervals, maxEnded, carried>>

\* variant: the game ends only when the clock already shows 0
TickStateAtZero(prev, state) == IF prev <= 0 THEN "GAMEOVER" ELSE state

\* variant: the game never ends while the clock is not negative
TickStateBelowZero(prev, state) == IF prev < 0 THEN "GAMEOVER" ELSE state

\* the state the interval callback's updater moves to gameState
TickState(prev, state) == IF prev <= 1 THEN "GAMEOVER" ELSE state

\* variant: the last second stays on the clock when the game ends
TickTimeKeepsLast(prev) == IF prev <= 1 THEN prev ELSE prev - 1

\* the value the interval callback's updater returns
TickTime(prev) == IF prev <= 1 THEN 0 ELSE prev - 1

\* one firing of a live interval
tick ==
    /\ intervals # {}
    /\ LET newState == TickState(timeLeft, gameState)
           t == TimerEffect(gameState, newState, timerRef, intervals)
       IN  /\ timeLeft' = TickTime(timeLeft)
           /\ gameState' = newState
           /\ bestScore' = BestScoreEffect(newState, score, bestScore)
           /\ timerRef' = t.timerRef
           /\ intervals' = t.intervals
           /\ maxEnded' = IF gameState = "PLAYING" /\ newState = "GAMEOVER"
                          THEN Max(maxEnded, score) ELSE maxEnded
           /\ carried' = carried \cap t.intervals
    /\ ev' = Event("tick", -1)
    /\ UNCHANGED <<score, gridSize, colors, targetIndex>>

\* ------------------------------------------------------------------------
\* Session specification: start, guess and tick events in any order.  One
\* draw stands for all five random numbers of a round.
\* ------------------------------------------------------------------------
\* indices a guess is delivered with: the target, the first and the last
\* position of the grid, one below the grid and one above it
GuessIndices ==
    {-1, 0, targetIndex, gridSize * gridSize - 1, gridSize * gridSize}

Start == \E k \in Draws(GameLevels) :
            startGame(k, k, k, k, k, GameLevels)

\* a guess draws random numbers only when it builds a round
Guess == \E index \in GuessIndices :
            IF IsPlaying(gameState) /\ IsTarget(index, targetIndex)
            THEN /\ score < MaxScore
                 /\ \E k \in Draws(GameLevels) :
                       handleBlockClick(index, k, k, k, k, k, GameLevels)
            ELSE handleBlockClick(index, 0, 0, 0, 0, 0, GameLevels)

Tick == tick

Next == Start \/ Guess \/ Tick

Spec == Init /\ [][Next]_vars

\* a registered interval keeps firing: setInterval calls back every second
\* until clearInterval
SpecLive == Init /\ [][Next]_vars /\ WF_vars(Tick)

\* ------------------------------------------------------------------------
\* Round generator specification: one start and then correct guesses only,
\* with the five random numbers of a round drawn independently.  nextLevel
\* reads the score and the draws only, never the round it replaces, so the
\* climb to the next score goes on from one round per score.
\* ------------------------------------------------------------------------
ClimbRound ==
    LET r == nextLevel(score, 0, 0, 0, 0, 0, GenLevels)
    IN  <<r.gridSize, r.colors, r.targetIndex>>

GenStart ==
    /\ gameState = "START"
    /\ \E kh \in Draws(GenLevels), ks \in Draws(GenLevels),
          kl \in Draws(GenLevels), kc \in Draws(GenLevels),
          ki \in Draws(GenLevels) :
            startGame(kh, ks, kl, kc, ki, GenLevels)

GenHit ==
    /\ IsPlaying(gameState)
    /\ score < MaxGenScore
    /\ round = ClimbRound
    /\ \E kh \in Draws(GenLevels), ks \in Draws(GenLevels),
          kl \in Draws(GenLevels), kc \in Draws(GenLevels),
          ki \in Draws(GenLevels) :
            handleBlockClick(targetIndex, kh, ks, kl, kc, ki, GenLevels)

NextGen == GenStart \/ GenHit

SpecGen == Init /\ [][NextGen]_vars

\* ------------------------------------------------------------------------
\* Properties of the session controller (checked under Spec)
\* ------------------------------------------------------------------------
\* positions of the current grid
Positions == 0 .. (gridSize * gridSize - 1)

\* the rounds nextLevel builds for a score, over the draws of the session
\* specification
RoundsFor(sc, L) ==
    { LET r == nextLevel(sc, k, k, k, k, k, L)
      IN  <<r.gridSize, r.colors, r.targetIndex>> : k \in Draws(L) }

\* C1: while PLAYING, a guess at targetIndex adds exactly 1 to score, sets
\* timeLeft to min(timeLeft + 2, 30), installs a round built for the new
\* score and leaves gameState and bestScore unchanged.
C1_CorrectGuess ==
    [][(ev'.op = "guess" /\ gameState = "PLAYING" /\ ev'.index = targetIndex)
        => /\ score' = score + 1
           /\ timeLeft' = (IF timeLeft + 2 <= 30 THEN timeLeft + 2 ELSE 30)
           /\ round' \in RoundsFor(score + 1, GameLevels)
           /\ gameState' = gameState
           /\ bestScore' = bestScore]_vars

\* a correct guess at timeLeft = 29 has left timeLeft at 30
C1_Witness ==
    /\ ev.op = "guess" /\ ev.state = "PLAYING"
    /\ ev.time = 29 /\ timeLeft = 30
    /\ score = ev.score + 1

\* C2: while PLAYING, a guess at a position of the grid other than
\* targetIndex sets timeLeft to max(timeLeft - 3, 0) and leaves score, the
\* round, bestScore and gameState unchanged, also when timeLeft becomes 0.
C2_WrongGuess ==
    [][(ev'.op = "guess" /\ gameState = "PLAYING"
          /\ ev'.index \in Positions /\ ev'.index # targetIndex)
        => /\ timeLeft' = (IF timeLeft - 3 >= 0 THEN timeLeft - 3 ELSE 0)
           /\ UNCHANGED <<score, gridSize, colors, targetIndex, bestScore,
                          gameState>>]_vars

\* a wrong guess with less than 3 seconds left: the clock shows 0 and the
\* game is still PLAYING
C2_Witness ==
    /\ ev.op = "guess" /\ ev.state = "PLAYING"
    /\ ev.index \in Positions /\ ev.index # targetIndex
    /\ ev.time \in 1 .. 2 /\ timeLeft = 0
    /\ gameState = "PLAYING"

\* C3: a guess with any index while the game is in START or GAMEOVER changes
\* none of score, timeLeft, the round, bestScore and gameState.
C3_GuessOutsidePlaying ==
    [][(ev'.op = "guess" /\ gameState # "PLAYING")
        => UNCHANGED <<score, timeLeft, gridSize, colors, targetIndex,
                       bestScore, gameState>>]_vars

\* a guess at the target position of the last round after the game is over
C3_Witness ==
    /\ ev.op = "guess" /\ ev.state = "GAMEOVER"
    /\ ev.index = targetIndex /\ ev.index \in Positions
    /\ gameState = "GAMEOVER"

\* C4 as claimed: while PLAYING, a guess with an index outside the grid
\* changes nothing, in particular not timeLeft.
C4_OutOfRangeIgnored ==
    [][(ev'.op = "guess" /\ gameState = "PLAYING" /\ ev'.index \notin Positions)
        => UNCHANGED <<score, timeLeft, gridSize, colors, targetIndex,
                       bestScore, gameState>>]_vars

\* C4 as amended: while PLAYING, a guess with an index outside the grid is
\* handled as a wrong guess: timeLeft becomes max(timeLeft - 3, 0) and score,
\* the round, bestScore and gameState are unchanged.
C4_OutOfRangePenalised ==
    [][(ev'.op = "guess" /\ gameState = "PLAYING" /\ ev'.index \notin Positions)
        => /\ timeLeft' = (IF timeLeft - 3 >= 0 THEN timeLeft - 3 ELSE 0)
           /\ UNCHANGED <<score, gridSize, colors, targetIndex, bestScore,
                          gameState>>]_vars

\* a guess above the grid has taken 3 seconds off the clock
C4_Witness ==
    /\ ev.op = "guess" /\ ev.state = "PLAYING"
    /\ ev.index = gridSize * gridSize
    /\ ev.time >= 3 /\ timeLeft = ev.time - 3

\* C5: a tick while PLAYING takes 1 off timeLeft and keeps the game PLAYING
\* when the result is positive; otherwise (timeLeft was 1 or 0) timeLeft
\* becomes 0 and the game GAMEOVER.  It changes neither score nor the round.
C5_Tick ==
    [][(ev'.op = "tick" /\ gameState = "PLAYING")
        => /\ IF timeLeft - 1 > 0
              THEN timeLeft' = timeLeft - 1 /\ gameState' = "PLAYING"
              ELSE timeLeft' = 0 /\ gameState' = "GAMEOVER"
           /\ UNCHANGED <<score, gridSize, colors, targetIndex>>]_vars

\* the tick at timeLeft = 1 has ended the game
C5_Witness ==
    /\ ev.op = "tick" /\ ev.state = "PLAYING" /\ ev.time = 1
    /\ timeLeft = 0 /\ gameState = "GAMEOVER"

\* C6: the game becomes GAMEOVER only from PLAYING, by a tick that leaves
\* timeLeft at 0; once GAMEOVER no tick is applied and timeLeft, score and
\* gameState stay as they are until the next start, so a session ends once.
C6_EndsOnce ==
    [][/\ (gameState # "GAMEOVER" /\ gameState' = "GAMEOVER")
            => (gameState = "PLAYING" /\ ev'.op = "tick" /\ timeLeft' = 0)
       /\ (gameState = "GAMEOVER" /\ ev'.op # "start")
            => (ev'.op # "tick"
                /\ UNCHANGED <<timeLeft, score, gameState>>)]_vars

\* an event has been delivered after the game was over
C6_Witness ==
    /\ ev.state = "GAMEOVER" /\ ev.op = "guess"
    /\ gameState = "GAMEOVER" /\ timeLeft = 0 /\ intervals = {}

\* C7: a start in any gameState gives PLAYING, score 0, timeLeft 15 and a
\* round built for score 0 (gridSize 2, 4 tiles) and leaves bestScore
\* unchanged; the result does not depend on the state it was applied in.
C7_Start ==
    [][ev'.op = "start"
        => /\ gameState' = "PLAYING"
           /\ score' = 0
           /\ timeLeft' = 15
           /\ gridSize' = 2
           /\ Len(colors') = 4
           /\ round' \in RoundsFor(0, GameLevels)
           /\ bestScore' = bestScore]_vars

\* a start has reset a session that was PLAYING with points and a used clock
C7_Witness ==
    /\ ev.op = "start" /\ ev.state = "PLAYING"
    /\ ev.score > 0 /\ ev.time # INITIAL_TIME
    /\ score = 0 /\ timeLeft = INITIAL_TIME

\* C8: bestScore never decreases, and it changes only in a step that takes
\* the game from PLAYING to GAMEOVER.
C8_BestScoreMonotone ==
    [][/\ bestScore' >= bestScore
       /\ bestScore' # bestScore
            => (gameState = "PLAYING" /\ gameState' = "GAMEOVER")]_vars

\* a start has abandoned a PLAYING session whose score was above bestScore
C8_Witness ==
    /\ ev.op = "start" /\ ev.state = "PLAYING"
    /\ ev.score > ev.best
    /\ bestScore = ev.best

\* C9: bestScore is the highest score a session has ended with: it is
\* brought up to the final score in the step that ends the session, and it
\* is kept over restarts.
C9_BestScoreIsMaxEnded ==
    /\ bestScore = maxEnded
    /\ gameState = "GAMEOVER" => bestScore >= score

\* a later session has ended below the best score of an earlier one
C9_Witness ==
    /\ ev.op = "tick" /\ ev.state = "PLAYING" /\ gameState = "GAMEOVER"
    /\ score > 0 /\ score < bestScore

\* ------------------------------------------------------------------------
\* Properties of the round generator (checked under SpecGen)
\* ------------------------------------------------------------------------
\* the colour of the tiles next to the target
BaseColor == colors[IF targetIndex = 0 THEN 2 ELSE 1]

\* C10: every round nextLevel has built has gridSize * gridSize tiles, a
\* targetIndex inside the grid, a target tile that differs from the base
\* colour, and the base colour on every other tile.
C10_RoundWellFormed ==
    colors # <<>>
        => /\ Len(colors) = gridSize * gridSize
           /\ targetIndex \in 0 .. (gridSize * gridSize - 1)
           /\ colors[targetIndex + 1] # BaseColor
           /\ \A p \in 1 .. Len(colors) :
                 p # targetIndex + 1 => colors[p] = BaseColor

\* a round of the largest grid, built at the score where the gap is 1
C10_Witness ==
    /\ score = 45 /\ gridSize = MAX_GRID_SIZE /\ Len(colors) = 64
    /\ ev.op = "guess" /\ targetIndex > 0

\* ------------------------------------------------------------------------
\* Further properties of the session controller (checked under Spec)
\* ------------------------------------------------------------------------
\* C11: in every reachable state timeLeft is a whole number from 0 to 30.
C11_TimeInRange == timeLeft \in 0 .. 30

\* a wrong guess with 1 second left, where prev - 3 is negative
C11_Witness ==
    /\ ev.op = "guess" /\ ev.state = "PLAYING" /\ ev.time = 1
    /\ ev.index # targetIndex
    /\ timeLeft = 0

\* C12: score is never negative; it changes only by +1 in a correct guess
\* while PLAYING or to 0 in a start, so it never decreases between two starts.
C12_ScoreSteps ==
    [][/\ score' >= 0
       /\ score' # score
            => \/ /\ ev'.op = "guess" /\ gameState = "PLAYING"
                  /\ ev'.index = targetIndex
                  /\ score' = score + 1
               \/ ev'.op = "start" /\ score' = 0]_vars

\* a second point has been scored in a session
C12_Witness ==
    /\ ev.op = "guess" /\ ev.state = "PLAYING"
    /\ ev.score >= 1 /\ score = ev.score + 1

\* ------------------------------------------------------------------------
\* Further properties of the round generator (checked under SpecGen)
\* ------------------------------------------------------------------------
\* the inclusive lower bounds of the grid dimensions 3 .. 8
GridThresholds == {2, 6, 12, 20, 30, 45}

\* the grid dimension as the table gives it: one more per threshold reached
TableGridSize(s) == 2 + Cardinality({t \in GridThresholds : s >= t})

\* C13: the grid dimension of a round built for a score is the step function
\* with inclusive lower bounds 45->8, 30->7, 20->6, 12->5, 6->4, 2->3, else
\* 2; it is within 2 .. 8 and no lower score has a larger grid.
C13_GridStepFunction ==
    colors # <<>>
        => /\ gridSize = TableGridSize(score)
           /\ gridSize \in 2 .. 8
           /\ Len(colors) = gridSize * gridSize
           /\ \A s \in 0 .. score : NewGridSize(s) <= gridSize

\* the round built for score 2 is a 3 x 3 grid of 9 tiles
C13_Witness ==
    /\ ev.op = "guess" /\ score = 2
    /\ gridSize = 3 /\ Len(colors) = 9

\* the colour of the target tile
TargetColor == colors[targetIndex + 1]

\* hue, saturation and lightness of a colour string
Hue(c) == c[2]
Sat(c) == c[3]
Light(c) == c[4]

Abs(x) == IF x >= 0 THEN x ELSE -x

\* the gap between the target tile and the other tiles, over both channels
ObservedGap ==
    Abs(Sat(TargetColor) - Sat(BaseColor))
        + Abs(Light(TargetColor) - Light(BaseColor))

\* max(1, 15 - floor(s / 3)) as the claim writes it
ClaimedDelta(s) == IF 15 - (s \div 3) >= 1 THEN 15 - (s \div 3) ELSE 1

\* C15: the colour gap of a round built for score s is
\* max(1, 15 - floor(s / 3)); it is at least 1, at most 15, and no lower
\* score has a smaller gap.
C15_DeltaMonotone ==
    colors # <<>>
        => /\ ObservedGap = ClaimedDelta(score)
           /\ ObservedGap \in 1 .. 15
           /\ \A s \in 0 .. score : Delta(s) >= ObservedGap

\* a round at score 45, where 15 - floor(s / 3) is 0 and the gap is 1
C15_Witness ==
    /\ ev.op = "guess" /\ score = 45
    /\ ObservedGap = 1

\* C16: the target colour has the hue of the base colour and differs from it
\* in exactly one of saturation and lightness, by exactly the gap of the
\* score: the gap is subtracted when the base value of that channel is above
\* 50 and added otherwise; both target channels are within 0 .. 100.
C16_OneChannelShift ==
    colors # <<>>
        => LET b == BaseColor
               t == TargetColor
               d == ClaimedDelta(score)
               shifted(x) == IF x > 50 THEN x - d ELSE x + d
           IN  /\ Hue(t) = Hue(b)
               /\ \/ Sat(t) = shifted(Sat(b)) /\ Light(t) = Light(b)
                  \/ Light(t) = shifted(Light(b)) /\ Sat(t) = Sat(b)
               /\ (Sat(t) # Sat(b)) # (Light(t) # Light(b))
               /\ Sat(t) \in 0 .. 100
               /\ Light(t) \in 0 .. 100

\* a round whose lightness is exactly 50 and has been raised by the gap
C16_Witness ==
    /\ colors # <<>>
    /\ Light(BaseColor) = 50
    /\ Light(TargetColor) = 50 + ClaimedDelta(score)
    /\ Sat(TargetColor) = Sat(BaseColor)

\* ------------------------------------------------------------------------
\* The countdown and the sessions (checked under Spec)
\* ------------------------------------------------------------------------
\* C14: an interval is live exactly while the game is PLAYING, never more
\* than one; entering PLAYING registers a new one, leaving PLAYING clears it,
\* and no tick comes from an interval registered before the last start.
C14_CountdownPerSession ==
    [][/\ (intervals' # {}) <=> (gameState' = "PLAYING")
       /\ Cardinality(intervals') <= 1
       /\ (gameState # "PLAYING" /\ gameState' = "PLAYING")
            => (intervals' # {} /\ intervals' \cap intervals = {})
       /\ (gameState = "PLAYING" /\ gameState' # "PLAYING")
            => intervals' = {}
       /\ ev'.op = "tick" => carried = {}]_vars

\* C17 as claimed: a round is stored only while the game is PLAYING; in
\* START and in GAMEOVER there are no tiles and no target.
C17_RoundOnlyWhilePlaying ==
    gameState # "PLAYING" => (colors = <<>> /\ targetIndex = -1)

\* C17 as amended: there is no round in START; from the first start on a
\* round is stored in every state, and in GAMEOVER it is the round the
\* session ended with, kept until the next start.
C17_RoundKeptAfterEnd ==
    [][/\ gameState' = "START" => (colors' = <<>> /\ targetIndex' = -1)
       /\ gameState' # "START"
            => (colors' # <<>>
                /\ targetIndex' \in 0 .. (gridSize' * gridSize' - 1))
       /\ gameState' = "GAMEOVER" => round' = round]_vars

\* the game is over and the 3 x 3 round it ended with is still stored
C17_Witness ==
    /\ gameState = "GAMEOVER" /\ ev.op = "tick" /\ ev.state = "PLAYING"
    /\ Len(colors) = 9 /\ targetIndex \in Positions

\* C18: while PLAYING or GAMEOVER the stored round fits the stored score:
\* gridSize is the step function of score, there are gridSize * gridSize
\* tiles and targetIndex is a position of the grid.
C18_RoundMatchesScore ==
    gameState \in {"PLAYING", "GAMEOVER"}
        => /\ gridSize = TableGridSize(score)
           /\ Len(colors) = gridSize * gridSize
           /\ targetIndex \in 0 .. (gridSize * gridSize - 1)

\* a session has ended at score 6, with the 4 x 4 round of that score
C18_Witness ==
    /\ gameState = "GAMEOVER" /\ score = 6
    /\ gridSize = 4 /\ Len(colors) = 16

\* C19: whenever the game is GAMEOVER timeLeft is 0, and the game becomes
\* GAMEOVER only in a tick, never in a guess or a start.
C19_EndedAtZero ==
    [][/\ gameState' = "GAMEOVER" => timeLeft' = 0
       /\ (gameState # "GAMEOVER" /\ gameState' = "GAMEOVER")
            => ev'.op = "tick"]_vars

\* a wrong guess has emptied the clock and the next tick has ended the game
C19_Witness ==
    /\ gameState = "GAMEOVER" /\ timeLeft = 0
    /\ ev.op = "tick" /\ ev.state = "PLAYING" /\ ev.time = 0

\* ------------------------------------------------------------------------
\* Termination of a session (checked under SpecLive)
\* ------------------------------------------------------------------------
\* a step that scores a point or starts a session
ScoresOrStarts == score' = score + 1 \/ ev'.op = "start"

\* C20: with ticks delivered fairly, a PLAYING session is followed by
\* GAMEOVER unless correct guesses or starts go on for ever; every tick
\* while PLAYING ends the game or lowers timeLeft, which is at most 30, and
\* only a correct guess raises it, so 30 ticks suffice.
C20_SessionEnds ==
    /\ \/ [](gameState = "PLAYING" => <>(gameState = "GAMEOVER"))
       \/ []<><<ScoresOrStarts>>_vars
    /\ [][/\ (ev'.op = "tick" /\ gameState = "PLAYING")
               => (gameState' = "GAMEOVER" \/ timeLeft' < timeLeft)
          /\ (ev'.op = "guess" /\ score' = score) => timeLeft' <= timeLeft
          /\ timeLeft' <= 30]_vars

\* a session with points has run out of time
C20_Witness ==
    /\ gameState = "GAMEOVER" /\ ev.op = "tick" /\ ev.state = "PLAYING"
    /\ score >= 1 /\ intervals = {}

====
